---- MODULE Spec2Model ----
(***************************************************************************)
(* The solana-wallet command line client (src/bin/wallet.rs): parse_args   *)
(* builds one WalletCommand from the matched arguments, mk_client binds    *)
(* the two UDP sockets, process_command runs the command against the       *)
(* ledger client (ThinClient) and the drone (token-grant service).         *)
(*                                                                         *)
(* Texts are sequences of one-character strings.  A 64 bit quantity is a   *)
(* sequence of 8 bytes, least significant first; an i64 is a sign and a    *)
(* magnitude of that form.                                                 *)
(***************************************************************************)
EXTENDS Integers, Sequences, FiniteSets, TLC

VARIABLES
    args,      \* what clap's get_matches returned for this invocation
    pc,        \* position of main in the program
    leader,    \* parse_args: the leader NodeInfo ("none" until set)
    id,        \* parse_args: the caller's public key ("none" until the keypair is read)
    drone_addr,\* parse_args: address of the drone ("none" until set)
    to,        \* parse_args, pay arm: the recipient ("none" until built)
    command,   \* config.command ([type |-> "None"] until constructed)
    client,    \* the ThinClient of mk_client ("none" until the sockets are bound)
    stream,    \* request_airdrop: the TcpStream ("none" / "connected")
    balance,   \* process_command: the result of poll_get_balance
    last_id,   \* process_command, Pay arm: the id get_last_id returned
    sig,       \* process_command, Pay arm: the signature transfer returned
    out,       \* the lines written to standard output, in order
    trace,     \* history: the operations performed on files, sockets and the clock
    result     \* what main ended with ([tag |-> "Running"] while it runs)

vars == <<args, pc, leader, id, drone_addr, to, command, client, stream,
          balance, last_id, sig, out, trace, result>>

----------------------------------------------------------------------------
(* Bounds of the model.                                                    *)

\* token texts are all texts over TokenChars of at most this length
MaxTokenLen == 2
\* key and signature texts end in every text over TailChars of at most this length
MaxTailLen == 1

----------------------------------------------------------------------------
(* Program constants.                                                      *)

\* std::mem::size_of::<PublicKey>()
PublicKeySize == 32
\* std::mem::size_of::<Signature>()
SignatureSize == 64
\* drone_addr.set_port(9900)
DRONE_PORT == 9900
\* sleep(Duration::from_millis(100))
AirdropSleepMillis == 100
\* exit status of a process whose main returned Err
ExitFailure == 1
\* exit status of a process that panicked
ExitPanic == 101

----------------------------------------------------------------------------
(* Sequences of bytes and 64 bit arithmetic.                               *)

Byte == 256
U64Bytes == 8
Radix == 10
Base58 == 58
SignBit == 128

Zeros(n) == [i \in 1..n |-> 0]

Reverse(s) == [i \in 1..Len(s) |-> s[Len(s) + 1 - i]]

\* m * k + a on little-endian digits of the given base; carry is what does
\* not fit in Len(m) digits
RECURSIVE MulAddFrom(_, _, _, _, _)
MulAddFrom(m, k, a, base, i) ==
    IF i > Len(m) THEN [val |-> <<>>, carry |-> a]
    ELSE LET cur  == m[i] * k + a
             rest == MulAddFrom(m, k, cur \div base, base, i + 1)
         IN  [val |-> <<cur % base>> \o rest.val, carry |-> rest.carry]

MulAdd(m, k, a, base) == MulAddFrom(m, k, a, base, 1)

\* the little-endian digits of n, none for 0
RECURSIVE DigitsOf(_, _)
DigitsOf(n, base) ==
    IF n = 0 THEN <<>> ELSE <<n % base>> \o DigitsOf(n \div base, base)

\* x + y on little-endian bytes of equal length
RECURSIVE AddFrom(_, _, _, _)
AddFrom(x, y, c, i) ==
    IF i > Len(x) THEN [val |-> <<>>, carry |-> c]
    ELSE LET cur  == x[i] + y[i] + c
             rest == AddFrom(x, y, cur \div Byte, i + 1)
         IN  [val |-> <<cur % Byte>> \o rest.val, carry |-> rest.carry]

Add(x, y) == AddFrom(x, y, 0, 1)

\* m divided by k, from the most significant byte down
RECURSIVE DivModFrom(_, _, _, _)
DivModFrom(m, k, r, i) ==
    IF i < 1 THEN [val |-> <<>>, rem |-> r]
    ELSE LET cur  == r * Byte + m[i]
             rest == DivModFrom(m, k, cur % k, i - 1)
         IN  [val |-> rest.val \o <<cur \div k>>, rem |-> rest.rem]

DivMod(m, k) == DivModFrom(m, k, 0, Len(m))

IsZero(m) == \A i \in 1..Len(m) : m[i] = 0

I64(neg, mag) == [neg |-> neg /\ ~IsZero(mag), mag |-> mag]

\* the magnitude is at most i64::MAX = 2^63 - 1
FitsPositive(mag) == mag[U64Bytes] < SignBit

\* the magnitude is at most -i64::MIN = 2^63
FitsNegative(mag) ==
    \/ mag[U64Bytes] < SignBit
    \/ mag[U64Bytes] = SignBit /\ \A i \in 1..(U64Bytes - 1) : mag[i] = 0

----------------------------------------------------------------------------
(* str::parse::<i64>, the {:?} rendering of an i64, and the cast to u64.   *)

DecimalChars == <<"0", "1", "2", "3", "4", "5", "6", "7", "8", "9">>

IsDecimal(c) == \E d \in 1..Len(DecimalChars) : DecimalChars[d] = c

ToDigit(c) == (CHOOSE d \in 1..Len(DecimalChars) : DecimalChars[d] = c) - 1

ParseOk(v) == [ok |-> TRUE, val |-> v]

ParseErr(kind) == [ok |-> FALSE, err |-> kind]

\* the digit loop of from_str_radix: checked_mul by the radix, then
\* checked_add (positive) or checked_sub (negative) of the digit
RECURSIVE ParseDigits(_, _, _, _)
ParseDigits(text, i, neg, mag) ==
    IF i > Len(text) THEN ParseOk(I64(neg, mag))
    ELSE IF ~IsDecimal(text[i]) THEN ParseErr("InvalidDigit")
    ELSE LET mul  == MulAdd(mag, Radix, 0, Byte)
             add  == MulAdd(mul.val, 1, ToDigit(text[i]), Byte)
             fits(m) == IF neg THEN FitsNegative(m) ELSE FitsPositive(m)
         IN  IF mul.carry # 0 \/ ~fits(mul.val) \/ add.carry # 0 \/ ~fits(add.val)
             THEN ParseErr(IF neg THEN "Underflow" ELSE "Overflow")
             ELSE ParseDigits(text, i + 1, neg, add.val)

ParseI64(text) ==
    IF Len(text) = 0 THEN ParseErr("Empty")
    ELSE LET signed == text[1] \in {"+", "-"}
             digits == IF signed THEN Tail(text) ELSE text
         IN  IF Len(digits) = 0 THEN ParseErr("Empty")
             ELSE ParseDigits(digits, 1, text[1] = "-", Zeros(U64Bytes))

RECURSIVE DecimalOf(_)
DecimalOf(mag) ==
    IF IsZero(mag) THEN <<>>
    ELSE LET q == DivMod(mag, Radix)
         IN  DecimalOf(q.val) \o <<DecimalChars[q.rem + 1]>>

\* "{:?}" of an i64
FormatI64(v) ==
    IF IsZero(v.mag) THEN <<"0">>
    ELSE (IF v.neg THEN <<"-">> ELSE <<>>) \o DecimalOf(v.mag)

\* the cast taken as the magnitude of the amount
AsU64Magnitude(v) == v.mag

\* "tokens as u64": the two's complement bits of the i64, read as unsigned
AsU64(v) ==
    IF v.neg
    THEN MulAdd([i \in 1..U64Bytes |-> (Byte - 1) - v.mag[i]], 1, 1, Byte).val
    ELSE v.mag

----------------------------------------------------------------------------
(* bs58::decode(..).into_vec() and bs58::encode(..).into_string().         *)

Alphabet ==
    <<"1", "2", "3", "4", "5", "6", "7", "8", "9",
      "A", "B", "C", "D", "E", "F", "G", "H", "J", "K", "L", "M", "N", "P", "Q",
      "R", "S", "T", "U", "V", "W", "X", "Y", "Z",
      "a", "b", "c", "d", "e", "f", "g", "h", "i", "j", "k", "m", "n", "o", "p",
      "q", "r", "s", "t", "u", "v", "w", "x", "y", "z">>

InAlphabet(c) == \E d \in 1..Base58 : Alphabet[d] = c

Base58Value(c) == (CHOOSE d \in 1..Base58 : Alphabet[d] = c) - 1

\* the number of leading elements of s equal to z
RECURSIVE LeadingFrom(_, _, _)
LeadingFrom(s, z, i) ==
    IF i > Len(s) \/ s[i] # z THEN 0 ELSE 1 + LeadingFrom(s, z, i + 1)

Leading(s, z) == LeadingFrom(s, z, 1)

\* one character at a time: the bytes so far times 58 plus the character's
\* value, the carry pushed as new high bytes
RECURSIVE DecodeFrom(_, _, _)
DecodeFrom(text, i, bytes) ==
    IF i > Len(text) THEN [ok |-> TRUE, val |-> bytes]
    ELSE IF ~InAlphabet(text[i]) THEN [ok |-> FALSE, err |-> "InvalidCharacter"]
    ELSE LET r == MulAdd(bytes, Base58, Base58Value(text[i]), Byte)
         IN  IF r.carry = 0
             THEN DecodeFrom(text, i + 1, r.val)
             ELSE DecodeFrom(text, i + 1, r.val \o DigitsOf(r.carry, Byte))

Bs58Decode(text) ==
    LET r == DecodeFrom(text, 1, <<>>)
    IN  IF ~r.ok THEN r
        ELSE [ok |-> TRUE,
              val |-> Reverse(r.val \o Zeros(Leading(text, Alphabet[1])))]

RECURSIVE EncodeFrom(_, _, _)
EncodeFrom(bytes, i, digits) ==
    IF i > Len(bytes) THEN digits
    ELSE LET r == MulAdd(digits, Byte, bytes[i], Base58)
         IN  IF r.carry = 0
             THEN EncodeFrom(bytes, i + 1, r.val)
             ELSE EncodeFrom(bytes, i + 1, r.val \o DigitsOf(r.carry, Base58))

Bs58Encode(bytes) ==
    LET digits == Reverse(EncodeFrom(bytes, 1, <<>>) \o Zeros(Leading(bytes, 0)))
    IN  [i \in 1..Len(digits) |-> Alphabet[digits[i] + 1]]

----------------------------------------------------------------------------
(* The inputs of one invocation: the matched arguments.                    *)

SeqsUpTo(S, n) == UNION {[1..k -> S] : k \in 0..n}

Ones(n) == [i \in 1..n |-> Alphabet[1]]

TokenChars == {"-", "0", "5", "x"}

\* i64::MAX, i64::MAX + 1, i64::MIN, i64::MIN - 1
BoundaryTokenTexts ==
    LET head == <<"9", "2", "2", "3", "3", "7", "2", "0", "3", "6", "8", "5", "4",
                  "7", "7", "5", "8", "0">>
    IN  {head \o <<"7">>, head \o <<"8">>, <<"-">> \o head \o <<"8">>,
         <<"-">> \o head \o <<"9">>}

TokenTexts == SeqsUpTo(TokenChars, MaxTokenLen) \cup BoundaryTokenTexts

\* "0" is not a character of the alphabet
TailChars == {"2", "R", "0"}

\* texts that decode to about `size` bytes: a run of "1" (one zero byte each)
\* and a short tail
Base58Texts(size) ==
    {Ones(k) \o tail : k \in {0, size - 2, size - 1, size, size + 1},
                       tail \in SeqsUpTo(TailChars, MaxTailLen)}

NoText == <<"none">>

Matches ==
    [subcommand : {"", "balance", "address"}, leader : BOOLEAN]
    \cup [subcommand : {"airdrop"}, leader : BOOLEAN, tokens : TokenTexts]
    \cup [subcommand : {"pay"}, leader : BOOLEAN, tokens : TokenTexts,
          to : {NoText} \cup Base58Texts(PublicKeySize)]
    \cup [subcommand : {"confirm"}, leader : BOOLEAN,
          signature : Base58Texts(SignatureSize)]

----------------------------------------------------------------------------
(* What the files, the ledger client and the drone can answer.             *)

\* public keys a keypair file can hold
Keys == {Zeros(PublicKeySize - 1) \o <<1>>, Zeros(PublicKeySize - 2) \o <<2, 3>>}

\* ids get_last_id can return
Hashes == {"h1", "h2"}

\* signatures transfer can return
Signatures ==
    {Zeros(SignatureSize), Zeros(SignatureSize - 1) \o <<1>>,
     Zeros(SignatureSize - 3) \o <<1, 0, 255>>}

\* balances the ledger can report
Balances ==
    {I64(FALSE, Zeros(U64Bytes)),
     I64(FALSE, <<50>> \o Zeros(U64Bytes - 1)),
     I64(TRUE, <<1>> \o Zeros(U64Bytes - 1)),
     I64(FALSE, [i \in 1..U64Bytes |-> IF i = U64Bytes THEN SignBit - 1 ELSE Byte - 1])}

IoOk(v) == [ok |-> TRUE, val |-> v]

IoErr(cause, kind) == [ok |-> FALSE, cause |-> cause, kind |-> kind]

\* io::Result<i64> of poll_get_balance: a balance, the answer that the
\* account has no record (ErrorKind::Other), or another failure
PollGetBalanceOutcomes ==
    {IoOk(b) : b \in Balances}
    \cup {IoErr("no account record", "Other"),
          IoErr("timeout", "TimedOut"),
          IoErr("malformed response", "InvalidData"),
          IoErr("transport error", "ConnectionRefused")}

\* get_last_id returns a Hash, not a Result: it yields an id or does not return
GetLastIdOutcomes == {IoOk(h) : h \in Hashes} \cup {IoErr("fetch failed", "Panic")}

\* io::Result<Signature> of transfer
TransferOutcomes ==
    {IoOk(s) : s \in Signatures} \cup {IoErr("transport error", "ConnectionRefused")}

\* bool of check_signature
CheckSignatureOutcomes == BOOLEAN

\* io::Result of TcpStream::connect and of write_all
ConnectOutcomes == {IoOk("connected"), IoErr("connect failed", "ConnectionRefused")}

WriteOutcomes == {IoOk("written"), IoErr("write failed", "BrokenPipe")}

----------------------------------------------------------------------------
(* Results and output.                                                     *)

Running == [tag |-> "Running", detail |-> ""]

Ok == [tag |-> "Ok", detail |-> ""]

Err(detail) == [tag |-> "Err", detail |-> detail]

Panic(detail) == [tag |-> "Panic", detail |-> detail]

\* the exit status of the process for what main ended with
ExitCode(r) ==
    CASE r.tag = "Ok" -> 0
      [] r.tag = "Err" -> ExitFailure
      [] r.tag = "Panic" -> ExitPanic

Line(text, arg) == [text |-> text, arg |-> arg]

DisplayActions ==
    << Line("", <<>>),
       Line("Commands:", <<>>),
       Line("  address   Get your public key", <<>>),
       Line("  balance   Get your account balance", <<>>),
       Line("  airdrop   Request a batch of tokens", <<>>),
       Line("  pay       Send tokens to a public key", <<>>),
       Line("  confirm   Confirm your last payment by signature", <<>>),
       Line("", <<>>) >>

NoCommand == [type |-> "None"]

NoAddr == [host |-> "none", port |-> 0]

NoBalance == IoErr("unset", "unset")

Init ==
    /\ args \in Matches
    /\ pc = "read_leader"
    /\ leader = "none"
    /\ id = <<>>
    /\ drone_addr = NoAddr
    /\ to = <<>>
    /\ command = NoCommand
    /\ client = "none"
    /\ stream = "none"
    /\ balance = NoBalance
    /\ last_id = "none"
    /\ sig = <<>>
    /\ out = <<>>
    /\ trace = <<>>
    /\ result = Running

\* main ends: parse_args or process_command returned, or a panic unwound
Finish(r) ==
    /\ pc' = "exit"
    /\ result' = r

----------------------------------------------------------------------------
(* parse_args                                                              *)

\* lines 143-149: read_leader panics when the file is missing or malformed
ReadLeader ==
    /\ pc = "read_leader"
    /\ UNCHANGED <<args, id, drone_addr, to, command, client, stream, balance,
                   last_id, sig, out>>
    /\ IF args.leader
       THEN /\ trace' = Append(trace, [op |-> "read_leader"])
            /\ \/ /\ leader' = "file"
                  /\ pc' = "read_keypair"
                  /\ UNCHANGED result
               \/ /\ Finish(Panic("file not found"))
                  /\ UNCHANGED leader
               \/ /\ Finish(Panic("failed to parse"))
                  /\ UNCHANGED leader
       ELSE /\ leader' = "default"
            /\ pc' = "read_keypair"
            /\ UNCHANGED <<trace, result>>

\* lines 151-154: read_keypair(..).expect("client keypair"), then the drone
\* address is the leader's with port 9900
ReadKeypair ==
    /\ pc = "read_keypair"
    /\ trace' = Append(trace, [op |-> "read_keypair"])
    /\ UNCHANGED <<args, leader, to, command, client, stream, balance, last_id,
                   sig, out>>
    /\ \/ \E key \in Keys :
            /\ id' = key
            /\ drone_addr' = [host |-> leader, port |-> DRONE_PORT]
            /\ pc' = "command"
            /\ UNCHANGED result
       \/ /\ Finish(Panic("client keypair"))
          /\ UNCHANGED <<id, drone_addr>>

\* parse_args returns Ok(WalletConfig) and main goes on to mk_client
Constructed(cmd) ==
    /\ command' = cmd
    /\ pc' = "mk_client"
    /\ UNCHANGED result

\* lines 157-160
AirdropArm ==
    /\ pc = "command"
    /\ args.subcommand = "airdrop"
    /\ trace' = Append(trace, [op |-> "parse", what |-> "tokens"])
    /\ UNCHANGED <<args, leader, id, drone_addr, to, client, stream, balance,
                   last_id, sig, out>>
    /\ LET tokens == ParseI64(args.tokens)
       IN  IF tokens.ok
           THEN Constructed([type |-> "AirDrop", tokens |-> tokens.val])
           ELSE /\ Finish(Err("ParseIntError"))
                /\ UNCHANGED command

\* the recipient checked only for being too short
PayToArmShortOnly ==
    /\ pc = "command"
    /\ args.subcommand = "pay"
    /\ UNCHANGED <<args, leader, id, drone_addr, command, client, stream,
                   balance, last_id, sig>>
    /\ IF args.to # NoText
       THEN LET pubkey_vec == Bs58Decode(args.to)
            IN  /\ trace' = Append(trace, [op |-> "decode", what |-> "to"])
                /\ IF ~pubkey_vec.ok
                   THEN /\ Finish(Panic("base58-encoded public key"))
                        /\ UNCHANGED <<to, out>>
                   ELSE IF Len(pubkey_vec.val) < PublicKeySize
                   THEN /\ out' = out \o DisplayActions
                        /\ Finish(Err("BadParameter"))
                        /\ UNCHANGED to
                   ELSE /\ to' = pubkey_vec.val
                        /\ pc' = "pay_tokens"
                        /\ UNCHANGED <<out, result>>
       ELSE /\ to' = id
            /\ pc' = "pay_tokens"
            /\ UNCHANGED <<out, trace, result>>

\* lines 162-174: the recipient of a payment
PayToArm ==
    /\ pc = "command"
    /\ args.subcommand = "pay"
    /\ UNCHANGED <<args, leader, id, drone_addr, command, client, stream,
                   balance, last_id, sig>>
    /\ IF args.to # NoText
       THEN LET pubkey_vec == Bs58Decode(args.to)
            IN  /\ trace' = Append(trace, [op |-> "decode", what |-> "to"])
                /\ IF ~pubkey_vec.ok
                   THEN /\ Finish(Panic("base58-encoded public key"))
                        /\ UNCHANGED <<to, out>>
                   ELSE IF Len(pubkey_vec.val) # PublicKeySize
                   THEN /\ out' = out \o DisplayActions
                        /\ Finish(Err("BadParameter"))
                        /\ UNCHANGED to
                   ELSE /\ to' = pubkey_vec.val
                        /\ pc' = "pay_tokens"
                        /\ UNCHANGED <<out, result>>
       ELSE /\ to' = id
            /\ pc' = "pay_tokens"
            /\ UNCHANGED <<out, trace, result>>

\* lines 176-178
PayTokensArm ==
    /\ pc = "pay_tokens"
    /\ trace' = Append(trace, [op |-> "parse", what |-> "tokens"])
    /\ UNCHANGED <<args, leader, id, drone_addr, to, client, stream, balance,
                   last_id, sig, out>>
    /\ LET tokens == ParseI64(args.tokens)
       IN  IF tokens.ok
           THEN Constructed([type |-> "Pay", tokens |-> tokens.val, to |-> to])
           ELSE /\ Finish(Err("ParseIntError"))
                /\ UNCHANGED command

\* lines 180-192
ConfirmArm ==
    /\ pc = "command"
    /\ args.subcommand = "confirm"
    /\ trace' = Append(trace, [op |-> "decode", what |-> "signature"])
    /\ UNCHANGED <<args, leader, id, drone_addr, to, client, stream, balance,
                   last_id, sig>>
    /\ LET sig_vec == Bs58Decode(args.signature)
       IN  IF ~sig_vec.ok
           THEN /\ Finish(Panic("base58-encoded signature"))
                /\ UNCHANGED <<command, out>>
           ELSE IF Len(sig_vec.val) = SignatureSize
           THEN /\ Constructed([type |-> "Confirm", sig |-> sig_vec.val])
                /\ UNCHANGED out
           ELSE /\ out' = out \o DisplayActions
                /\ Finish(Err("BadParameter"))
                /\ UNCHANGED command

\* lines 193-194
BalanceArm ==
    /\ pc = "command"
    /\ args.subcommand = "balance"
    /\ Constructed([type |-> "Balance"])
    /\ UNCHANGED <<args, leader, id, drone_addr, to, client, stream, balance,
                   last_id, sig, out, trace>>

AddressArm ==
    /\ pc = "command"
    /\ args.subcommand = "address"
    /\ Constructed([type |-> "Address"])
    /\ UNCHANGED <<args, leader, id, drone_addr, to, client, stream, balance,
                   last_id, sig, out, trace>>

\* no subcommand taken as the command of WalletConfig::default
NoSubcommandArmDefault ==
    /\ pc = "command"
    /\ args.subcommand = ""
    /\ Constructed([type |-> "Balance"])
    /\ UNCHANGED <<args, leader, id, drone_addr, to, client, stream, balance,
                   last_id, sig, out, trace>>

\* lines 195-200
NoSubcommandArm ==
    /\ pc = "command"
    /\ args.subcommand = ""
    /\ out' = out \o DisplayActions
    /\ Finish(Err("CommandNotRecognized"))
    /\ UNCHANGED <<args, leader, id, drone_addr, to, command, client, stream,
                   balance, last_id, sig, trace>>

----------------------------------------------------------------------------
(* mk_client                                                               *)

\* lines 283-296: each bind is unwrapped; the first that fails panics
MkClient ==
    /\ pc = "mk_client"
    /\ UNCHANGED <<args, leader, id, drone_addr, to, command, stream, balance,
                   last_id, sig, out>>
    /\ \/ /\ trace' = trace \o <<[op |-> "bind", socket |-> "requests", ok |-> TRUE],
                                 [op |-> "bind", socket |-> "transactions", ok |-> TRUE]>>
          /\ client' = leader
          /\ pc' = "process_command"
          /\ UNCHANGED result
       \/ /\ trace' = trace \o <<[op |-> "bind", socket |-> "requests", ok |-> TRUE],
                                 [op |-> "bind", socket |-> "transactions", ok |-> FALSE]>>
          /\ Finish(Panic("bind"))
          /\ UNCHANGED client
       \/ /\ trace' = trace \o <<[op |-> "bind", socket |-> "requests", ok |-> FALSE]>>
          /\ Finish(Panic("bind"))
          /\ UNCHANGED client

----------------------------------------------------------------------------
(* process_command                                                         *)

\* lines 218-220
Address ==
    /\ pc = "process_command"
    /\ command.type = "Address"
    /\ out' = Append(out, Line("{}", Bs58Encode(id)))
    /\ Finish(Ok)
    /\ UNCHANGED <<args, leader, id, drone_addr, to, command, client, stream,
                   balance, last_id, sig, trace>>

\* lines 222-223
BalancePoll ==
    /\ pc = "process_command"
    /\ command.type = "Balance"
    /\ \E res \in PollGetBalanceOutcomes :
          /\ balance' = res
          /\ trace' = Append(trace, [op |-> "poll_get_balance", pubkey |-> id,
                                     res |-> res])
    /\ out' = Append(out, Line("Balance requested...", <<>>))
    /\ pc' = "balance_render"
    /\ UNCHANGED <<args, leader, id, drone_addr, to, command, client, stream,
                   last_id, sig, result>>

\* every failure of the query taken as "no account record"
BalanceRenderConflated ==
    /\ pc = "balance_render"
    /\ out' = Append(out,
                 IF balance.ok
                 THEN Line("Your balance is: {:?}", FormatI64(balance.val))
                 ELSE Line("No account found! Request an airdrop to get started.", <<>>))
    /\ Finish(Ok)
    /\ UNCHANGED <<args, leader, id, drone_addr, to, command, client, stream,
                   balance, last_id, sig, trace>>

\* lines 224-234, then Ok(()) of line 264
BalanceRender ==
    /\ pc = "balance_render"
    /\ out' = Append(out,
                 IF balance.ok
                 THEN Line("Your balance is: {:?}", FormatI64(balance.val))
                 ELSE IF balance.kind = "Other"
                 THEN Line("No account found! Request an airdrop to get started.", <<>>)
                 ELSE Line("An error occurred: {:?}", <<balance.kind, balance.cause>>))
    /\ Finish(Ok)
    /\ UNCHANGED <<args, leader, id, drone_addr, to, command, client, stream,
                   balance, last_id, sig, trace>>

\* lines 239-241 and 303: the two announcements, then request_airdrop connects
AirdropConnect ==
    /\ pc = "process_command"
    /\ command.type = "AirDrop"
    /\ out' = out \o <<Line("Airdrop requested...", <<>>),
                       Line("Airdropping {:?} tokens", FormatI64(command.tokens))>>
    /\ UNCHANGED <<args, leader, id, drone_addr, to, command, client, balance,
                   last_id, sig>>
    /\ \E res \in ConnectOutcomes :
          /\ trace' = Append(trace, [op |-> "connect", addr |-> drone_addr,
                                     ok |-> res.ok])
          /\ IF res.ok
             THEN /\ stream' = "connected"
                  /\ pc' = "airdrop_write"
                  /\ UNCHANGED result
             ELSE /\ Finish(Err(res.kind))
                  /\ UNCHANGED stream

\* lines 304-311: the request is built from tokens as u64 (line 241) and the
\* caller's key, serialized and written; write_all is unwrapped
AirdropWrite ==
    /\ pc = "airdrop_write"
    /\ UNCHANGED <<args, leader, id, drone_addr, to, command, client, balance,
                   last_id, sig, out>>
    /\ LET req == [airdrop_request_amount |-> AsU64(command.tokens),
                   client_public_key |-> id]
       IN  \E res \in WriteOutcomes :
              /\ trace' = Append(trace, [op |-> "write", req |-> req, ok |-> res.ok])
              /\ stream' = "closed"
              /\ IF res.ok
                 THEN /\ pc' = "airdrop_sleep"
                      /\ UNCHANGED result
                 ELSE Finish(Panic("write_all"))

\* the poll made without the wait
AirdropSleepSkipped ==
    /\ pc = "airdrop_sleep"
    /\ pc' = "airdrop_poll"
    /\ UNCHANGED <<args, leader, id, drone_addr, to, command, client, stream,
                   balance, last_id, sig, out, trace, result>>

\* line 243
AirdropSleep ==
    /\ pc = "airdrop_sleep"
    /\ trace' = Append(trace, [op |-> "sleep", millis |-> AirdropSleepMillis])
    /\ pc' = "airdrop_poll"
    /\ UNCHANGED <<args, leader, id, drone_addr, to, command, client, stream,
                   balance, last_id, sig, out, result>>

\* the poll after the grant rendered as the Balance command renders it
AirdropPollGuarded ==
    /\ pc = "airdrop_poll"
    /\ UNCHANGED <<args, leader, id, drone_addr, to, command, client, stream,
                   last_id, sig>>
    /\ \E res \in PollGetBalanceOutcomes :
          /\ balance' = res
          /\ trace' = Append(trace, [op |-> "poll_get_balance", pubkey |-> id,
                                     res |-> res])
          /\ out' = Append(out,
                       IF res.ok
                       THEN Line("Your balance is: {:?}", FormatI64(res.val))
                       ELSE IF res.kind = "Other"
                       THEN Line("No account found! Request an airdrop to get started.", <<>>)
                       ELSE Line("An error occurred: {:?}", <<res.kind, res.cause>>))
          /\ Finish(Ok)

\* lines 244-247: the result of the poll is unwrapped before anything is printed
AirdropPoll ==
    /\ pc = "airdrop_poll"
    /\ UNCHANGED <<args, leader, id, drone_addr, to, command, client, stream,
                   last_id, sig>>
    /\ \E res \in PollGetBalanceOutcomes :
          /\ balance' = res
          /\ trace' = Append(trace, [op |-> "poll_get_balance", pubkey |-> id,
                                     res |-> res])
          /\ IF res.ok
             THEN /\ out' = Append(out, Line("Your balance is: {:?}",
                                             FormatI64(res.val)))
                  /\ Finish(Ok)
             ELSE /\ Finish(Panic("unwrap"))
                  /\ UNCHANGED out

\* line 251
PayGetLastId ==
    /\ pc = "process_command"
    /\ command.type = "Pay"
    /\ UNCHANGED <<args, leader, id, drone_addr, to, command, client, stream,
                   balance, sig, out>>
    /\ \E res \in GetLastIdOutcomes :
          /\ trace' = Append(trace, [op |-> "get_last_id", res |-> res])
          /\ IF res.ok
             THEN /\ last_id' = res.val
                  /\ pc' = "pay_transfer"
                  /\ UNCHANGED result
             ELSE /\ Finish(Panic("get_last_id"))
                  /\ UNCHANGED last_id

\* the transfer made out to the caller, whatever the recipient
PayTransferToSelf ==
    /\ pc = "pay_transfer"
    /\ UNCHANGED <<args, leader, id, drone_addr, to, command, client, stream,
                   balance, last_id, out>>
    /\ \E res \in TransferOutcomes :
          /\ trace' = Append(trace,
                         [op |-> "transfer", tokens |-> command.tokens,
                          keypair |-> id, to |-> id,
                          last_id |-> last_id, res |-> res])
          /\ IF res.ok
             THEN /\ sig' = res.val
                  /\ pc' = "pay_print"
                  /\ UNCHANGED result
             ELSE /\ Finish(Err(res.kind))
                  /\ UNCHANGED sig

\* the result of the transfer not checked: a failed one yields the default
\* signature
PayTransferUnchecked ==
    /\ pc = "pay_transfer"
    /\ UNCHANGED <<args, leader, id, drone_addr, to, command, client, stream,
                   balance, last_id, out, result>>
    /\ \E res \in TransferOutcomes :
          /\ trace' = Append(trace,
                         [op |-> "transfer", tokens |-> command.tokens,
                          keypair |-> id, to |-> command.to,
                          last_id |-> last_id, res |-> res])
          /\ sig' = IF res.ok THEN res.val ELSE Zeros(SignatureSize)
          /\ pc' = "pay_print"

\* line 252
PayTransfer ==
    /\ pc = "pay_transfer"
    /\ UNCHANGED <<args, leader, id, drone_addr, to, command, client, stream,
                   balance, last_id, out>>
    /\ \E res \in TransferOutcomes :
          /\ trace' = Append(trace,
                         [op |-> "transfer", tokens |-> command.tokens,
                          keypair |-> id, to |-> command.to,
                          last_id |-> last_id, res |-> res])
          /\ IF res.ok
             THEN /\ sig' = res.val
                  /\ pc' = "pay_print"
                  /\ UNCHANGED result
             ELSE /\ Finish(Err(res.kind))
                  /\ UNCHANGED sig

\* line 253, then Ok(()) of line 264
PayPrint ==
    /\ pc = "pay_print"
    /\ out' = Append(out, Line("{}", Bs58Encode(sig)))
    /\ Finish(Ok)
    /\ UNCHANGED <<args, leader, id, drone_addr, to, command, client, stream,
                   balance, last_id, sig, trace>>

\* the two answers of the lookup exchanged
ConfirmInverted ==
    /\ pc = "process_command"
    /\ command.type = "Confirm"
    /\ \E found \in CheckSignatureOutcomes :
          /\ trace' = Append(trace, [op |-> "check_signature", sig |-> command.sig,
                                     found |-> found])
          /\ out' = Append(out, IF found THEN Line("Not found", <<>>)
                                         ELSE Line("Confirmed", <<>>))
    /\ Finish(Ok)
    /\ UNCHANGED <<args, leader, id, drone_addr, to, command, client, stream,
                   balance, last_id, sig>>

\* lines 256-262, then Ok(()) of line 264
Confirm ==
    /\ pc = "process_command"
    /\ command.type = "Confirm"
    /\ \E found \in CheckSignatureOutcomes :
          /\ trace' = Append(trace, [op |-> "check_signature", sig |-> command.sig,
                                     found |-> found])
          /\ out' = Append(out, IF found THEN Line("Confirmed", <<>>)
                                         ELSE Line("Not found", <<>>))
    /\ Finish(Ok)
    /\ UNCHANGED <<args, leader, id, drone_addr, to, command, client, stream,
                   balance, last_id, sig>>

----------------------------------------------------------------------------

Next ==
    \/ ReadLeader
    \/ ReadKeypair
    \/ AirdropArm
    \/ PayToArm
    \/ PayTokensArm
    \/ ConfirmArm
    \/ BalanceArm
    \/ AddressArm
    \/ NoSubcommandArm
    \/ MkClient
    \/ Address
    \/ BalancePoll
    \/ BalanceRender
    \/ AirdropConnect
    \/ AirdropWrite
    \/ AirdropSleep
    \/ AirdropPoll
    \/ PayGetLastId
    \/ PayTransfer
    \/ PayPrint
    \/ Confirm

Spec == Init /\ [][Next]_vars

----------------------------------------------------------------------------
(* Reading the history.                                                    *)

Ops(op) == SelectSeq(trace, LAMBDA e : e.op = op)

Count(op) == Len(Ops(op))

\* the position of the first operation `op` in the history, 0 when there is none
IndexOf(op) ==
    IF Count(op) = 0 THEN 0
    ELSE CHOOSE i \in 1..Len(trace) :
            trace[i].op = op /\ \A j \in 1..(i - 1) : trace[j].op # op

NetworkOps ==
    {"bind", "connect", "write", "poll_get_balance", "get_last_id", "transfer",
     "check_signature"}

NetworkCount == Len(SelectSeq(trace, LAMBDA e : e.op \in NetworkOps))

Exited == pc = "exit"

BalanceLines == SelectSeq(out, LAMBDA l : l.text = "Your balance is: {:?}")

NoAccountLine == Line("No account found! Request an airdrop to get started.", <<>>)

----------------------------------------------------------------------------
(* C1: the Balance command makes one balance query and renders it three    *)
(* ways: an answer prints the balance, the "no account record" answer      *)
(* alone prints the airdrop guidance, every other failure prints "An error *)
(* occurred" with the error detail; in all three main returns Ok (exit 0). *)
C1_BalanceThreeWay ==
    (command.type = "Balance" /\ Count("poll_get_balance") > 0) =>
        LET res == Ops("poll_get_balance")[1].res
        IN  /\ Count("poll_get_balance") = 1
            /\ result.tag \in {"Running", "Ok"}
            /\ Exited =>
                 /\ result = Ok
                 /\ ExitCode(result) = 0
                 /\ Len(out) = 2
                 /\ out[1] = Line("Balance requested...", <<>>)
                 /\ res.ok =>
                      /\ out[2].text = "Your balance is: {:?}"
                      /\ ParseI64(out[2].arg) = ParseOk(res.val)
                 /\ (~res.ok /\ res.cause = "no account record") =>
                      out[2] = NoAccountLine
                 /\ (~res.ok /\ res.cause # "no account record") =>
                      /\ out[2].text = "An error occurred: {:?}"
                      /\ \E i \in 1..Len(out[2].arg) : out[2].arg[i] = res.kind

C1_Witness ==
    /\ command.type = "Balance"
    /\ Exited
    /\ Count("poll_get_balance") = 1
    /\ Ops("poll_get_balance")[1].res.ok = FALSE
    /\ Ops("poll_get_balance")[1].res.cause = "timeout"
    /\ Len(out) = 2
    /\ out[2].text = "An error occurred: {:?}"
    /\ result = Ok

(* C2: AirDrop(amount), the drone accepting the write: one grant request   *)
(* with the amount (as u64: the amount itself when it is >= 0) and the     *)
(* caller's key is written, then the 100 ms sleep, then one balance query, *)
(* then the balance it answered is printed; there is no balance query      *)
(* before the request is written.                                          *)
C2_AirdropOrder ==
    command.type = "AirDrop" =>
        LET w == Ops("write")
            p == Ops("poll_get_balance")
        IN  /\ Count("connect") <= 1 /\ Len(w) <= 1
            /\ Count("sleep") <= 1 /\ Len(p) <= 1
            /\ Len(w) = 1 =>
                 /\ w[1].req.client_public_key = id
                 /\ ~command.tokens.neg =>
                      w[1].req.airdrop_request_amount = command.tokens.mag
                 /\ command.tokens.neg =>
                      Add(w[1].req.airdrop_request_amount, command.tokens.mag)
                         = [val |-> Zeros(U64Bytes), carry |-> 1]
                 /\ ParseOk(command.tokens) = ParseI64(args.tokens)
            /\ Count("sleep") = 1 =>
                 /\ Len(w) = 1 /\ w[1].ok
                 /\ IndexOf("write") < IndexOf("sleep")
                 /\ trace[IndexOf("sleep")].millis = AirdropSleepMillis
            /\ Len(p) = 1 =>
                 /\ Count("sleep") = 1
                 /\ IndexOf("sleep") < IndexOf("poll_get_balance")
                 /\ p[1].pubkey = id
            /\ Len(BalanceLines) > 0 =>
                 /\ Len(p) = 1 /\ p[1].res.ok
                 /\ Len(BalanceLines) = 1
                 /\ out[Len(out)] = BalanceLines[1]
                 /\ ParseI64(BalanceLines[1].arg) = ParseOk(p[1].res.val)
            /\ (Exited /\ Len(w) = 1 /\ w[1].ok) =>
                 /\ Count("sleep") = 1 /\ Len(p) = 1
                 /\ p[1].res.ok => (result = Ok /\ Len(BalanceLines) = 1)

C2_Witness ==
    /\ command.type = "AirDrop"
    /\ Exited
    /\ result = Ok
    /\ Count("write") = 1 /\ Count("sleep") = 1 /\ Count("poll_get_balance") = 1
    /\ Ops("write")[1].req.airdrop_request_amount = <<50>> \o Zeros(U64Bytes - 1)
    /\ BalanceLines = <<Line("Your balance is: {:?}", <<"5", "0">>)>>

(* C3: AirDrop, the connect to the drone or the write of the request       *)
(* failing: the command returns an error, and neither sleeps nor queries   *)
(* nor prints a balance.                                                   *)
C3_GrantFailureReturnsError ==
    (/\ command.type = "AirDrop"
     /\ \/ Count("connect") = 1 /\ ~Ops("connect")[1].ok
        \/ Count("write") = 1 /\ ~Ops("write")[1].ok) =>
        /\ Exited
        /\ result.tag = "Err"
        /\ Count("sleep") = 0
        /\ Count("poll_get_balance") = 0
        /\ Len(BalanceLines) = 0

(* C4: AirDrop, the balance query after the grant failing (the "no account *)
(* record" answer included): nothing is printed for it and main ends in a  *)
(* panic; the same failure under Balance is printed and main returns Ok.   *)
C4_UnguardedAirdropPoll ==
    (Count("poll_get_balance") > 0 /\ ~Ops("poll_get_balance")[1].res.ok) =>
        /\ command.type = "AirDrop" =>
             /\ Exited
             /\ result.tag = "Panic"
             /\ ExitCode(result) # 0
             /\ out = <<Line("Airdrop requested...", <<>>),
                        Line("Airdropping {:?} tokens", FormatI64(command.tokens))>>
        /\ (command.type = "Balance" /\ Exited) =>
             /\ result = Ok
             /\ Len(out) = 2
             /\ out[2].text \in {NoAccountLine.text, "An error occurred: {:?}"}

C4_Witness ==
    /\ command.type = "AirDrop"
    /\ Exited
    /\ Count("poll_get_balance") = 1
    /\ ~Ops("poll_get_balance")[1].res.ok
    /\ Ops("poll_get_balance")[1].res.kind = "Other"
    /\ result.tag = "Panic"
    /\ Len(BalanceLines) = 0

WrongWidth ==
    \/ /\ args.subcommand = "pay"
       /\ args.to # NoText
       /\ Bs58Decode(args.to).ok
       /\ Len(Bs58Decode(args.to).val) # PublicKeySize
    \/ /\ args.subcommand = "confirm"
       /\ Bs58Decode(args.signature).ok
       /\ Len(Bs58Decode(args.signature).val) # SignatureSize

(* C7: a pay recipient or confirm signature that decodes to the wrong      *)
(* width: once the command arm has decoded it, the summary is displayed    *)
(* and parse_args has returned BadParameter; no panic, no command, and for *)
(* pay no recipient built and no amount parsed.                            *)
C7_WrongWidthIsBadParameter ==
    WrongWidth =>
        /\ command = NoCommand
        /\ to = <<>>
        /\ Count("parse") = 0
        /\ NetworkCount = 0
        /\ Count("decode") > 0 =>
             /\ Exited
             /\ result = Err("BadParameter")
             /\ out = DisplayActions

C7_Witness ==
    /\ args.subcommand = "pay"
    /\ WrongWidth
    /\ Len(Bs58Decode(args.to).val) = PublicKeySize + 1
    /\ Count("decode") = 1
    /\ Exited
    /\ result = Err("BadParameter")

(* C8: nothing is bound or sent unless a command was constructed; with no  *)
(* subcommand the summary is displayed, parse_args returns                 *)
(* CommandNotRecognized (not BadParameter) and no network operation is     *)
(* made.                                                                   *)
C8_ValidationBeforeNetwork ==
    /\ NetworkCount > 0 => command # NoCommand
    /\ command = NoCommand => client = "none"
    /\ args.subcommand = "" =>
         /\ NetworkCount = 0
         /\ command = NoCommand
         /\ (Exited /\ Len(id) > 0) =>
              /\ result = Err("CommandNotRecognized")
              /\ result # Err("BadParameter")
              /\ out = DisplayActions

C8_Witness ==
    /\ args.subcommand = ""
    /\ Exited
    /\ result = Err("CommandNotRecognized")
    /\ out = DisplayActions
    /\ NetworkCount = 0

(* C9: Confirm(signature), once the client is made: one lookup of that     *)
(* signature, "Confirmed" printed when it answers true and "Not found"     *)
(* when false, nothing else, and main returns Ok.                          *)
C9_ConfirmOutput ==
    (command.type = "Confirm" /\ client # "none") =>
        LET c == Ops("check_signature")
        IN  /\ Len(c) <= 1
            /\ result.tag \in {"Running", "Ok"}
            /\ Len(c) = 0 => (out = <<>> /\ ~Exited)
            /\ Len(c) = 1 =>
                 /\ Exited
                 /\ result = Ok
                 /\ IoOk(c[1].sig) = Bs58Decode(args.signature)
                 /\ out = <<IF c[1].found THEN Line("Confirmed", <<>>)
                                          ELSE Line("Not found", <<>>)>>

C9_Witness ==
    /\ command.type = "Confirm"
    /\ Exited
    /\ Count("check_signature") = 1
    /\ ~Ops("check_signature")[1].found
    /\ out = <<Line("Not found", <<>>)>>
    /\ result = Ok

(* C10: the amount in the grant request is the command's i64 amount read   *)
(* as u64: the amount itself when it is >= 0, the amount plus 2^64 when it *)
(* is negative; a negative amount is parsed into an AirDrop command, not   *)
(* rejected.                                                               *)
C10_AmountAsU64 ==
    /\ (command.type = "AirDrop" /\ Count("write") > 0) =>
         LET n == command.tokens
             u == Ops("write")[1].req.airdrop_request_amount
         IN  /\ Len(u) = U64Bytes
             /\ \A i \in 1..U64Bytes : u[i] \in 0..(Byte - 1)
             /\ ~n.neg => u = n.mag
             /\ n.neg => Add(u, n.mag) = [val |-> Zeros(U64Bytes), carry |-> 1]
    /\ (/\ args.subcommand = "airdrop"
        /\ Count("parse") > 0
        /\ ParseI64(args.tokens).ok) =>
         /\ command.type = "AirDrop"
         /\ ParseOk(command.tokens) = ParseI64(args.tokens)
         /\ result.tag # "Err" \/ Count("connect") > 0

C10_Witness ==
    /\ command.type = "AirDrop"
    /\ args.tokens = <<"-", "5">>
    /\ command.tokens.neg
    /\ Count("write") = 1
    /\ Ops("write")[1].ok
    /\ Ops("write")[1].req.airdrop_request_amount =
          <<Byte - 5>> \o [i \in 1..(U64Bytes - 1) |-> Byte - 1]

====
